---- MODULE Spec2Model ----
(***************************************************************************)
(* Model of the adowi2gh migration engine (internal/migration/engine.go)   *)
(* together with the parts of the field mapper and of the GitHub client    *)
(* that the engine drives.  One behaviour is a sequence of runs of the     *)
(* command line tool against the same target repository and the same       *)
(* checkpoint file; every run builds a fresh Engine (NewEngine) and calls  *)
(* Engine.Run once.  Every remote call is one step, so that a run may      *)
(* crash between any two calls.  The query of the tool selects the same    *)
(* work items in every run of a behaviour.  Time stamps are not modelled.  *)
(***************************************************************************)
EXTENDS Integers, Sequences, FiniteSets, TLC

(* ------------------------------ bounds --------------------------------- *)

\* number of runs of the tool in one behaviour
MaxRuns == 2

\* longest list GetWorkItems returns
MaxItems == 2

(* --------------------------- program constants ------------------------- *)

\* engine.go:151, the batch size used when the configured one is <= 0
DefaultBatchSize == 10

\* configured batch sizes the runs are started with (0 = not configured)
BatchSizes == {0, 1}

(* ------------------------------ source data ---------------------------- *)

WorkItemIDs == {101, 102}

\* models.User, and the nil that GetAssignedTo returns when the work item has
\* no System.AssignedTo
NoUser == [isNil |-> TRUE, UniqueName |-> "", Email |-> "", DisplayName |-> ""]

User(uniqueName, email, displayName) ==
  [isNil |-> FALSE, UniqueName |-> uniqueName, Email |-> email,
   DisplayName |-> displayName]

\* The issues of the target repository are kept as the list of the work item
\* IDs their bodies refer to: that is all the engine ever reads back from
\* the repository (SearchIssues).
\*
\* The work items of the Azure DevOps project, by ID.  Fields holds the
\* entries of WorkItem.Fields the mapper reads; a string field that is absent
\* is "", AreaPath is kept as the list of its backslash-separated segments,
\* Tags as the list of the semicolon-separated parts of System.Tags.
\* NumComments is what GetWorkItemComments returns for the item.
WorkItem(id) ==
  IF id = 101
  THEN [ID |-> 101,
        Fields |-> [State |-> "Done", WorkItemType |-> "Bug",
                    Priority |-> "", Severity |-> "",
                    AreaPath |-> <<>>,
                    Tags |-> <<"Urgent", "urgent">>,
                    AssignedTo |-> NoUser],
        NumComments |-> 2]
  ELSE [ID |-> id,
        Fields |-> [State |-> "New", WorkItemType |-> "Task",
                    Priority |-> "", Severity |-> "",
                    AreaPath |-> <<>>,
                    Tags |-> <<>>,
                    AssignedTo |-> NoUser],
        NumComments |-> 0]

\* strings.ToLower on the strings that occur in the source data
ToLower(s) ==
  CASE s = "Done" -> "done"
    [] s = "New" -> "new"
    [] s = "Closed" -> "closed"
    [] s = "REMOVED" -> "removed"
    [] s = "Resolved" -> "resolved"
    [] s = "Unknown" -> "unknown"
    [] s = "Active" -> "active"
    [] s = "User Story" -> "user story"
    [] s = "Epic" -> "epic"
    [] s = "Bug" -> "bug"
    [] s = "Task" -> "task"
    [] s = "High" -> "high"
    [] s = "Login" -> "login"
    [] s = "Urgent" -> "urgent"
    [] s = "JDoe" -> "jdoe"
    [] s = "J.Doe@Example.com" -> "j.doe@example.com"
    [] s = "Other@Example.com" -> "other@example.com"
    [] s = "John Doe" -> "john doe"
    [] OTHER -> s

\* strings.TrimSpace on the strings that occur in the source data
TrimSpace(s) ==
  CASE s = " urgent" -> "urgent"
    [] s = " " -> ""
    [] OTHER -> s

\* config.FieldMapping of the runs
FieldMapping ==
  [StateMapping |-> [s \in {"Resolved"} |-> "open"],
   TypeMapping |-> [t \in {"bug", "Task"} |->
                      IF t = "bug" THEN <<"bug">> ELSE <<"task">>],
   PriorityMapping |-> [p \in {"1"} |-> <<"priority:critical">>],
   IncludeSeverityLabel |-> TRUE,
   IncludeAreaPathLabel |-> TRUE]

\* config.MigrationConfig.UserMapping of the runs
UserMapping == [u \in {"j.doe@example.com"} |-> "jd-email"]

(* ------------------------------ the mapper ----------------------------- *)

\* a Mapper is the record m of its fields config and userMapping
NewMapper(fieldMapping, userMapping) ==
  [config |-> fieldMapping, userMapping |-> userMapping]

\* mapState without the lower-casing of the built-in classification
mapState_caseSensitive(m, adoState) ==
  IF adoState \in DOMAIN m.config.StateMapping
  THEN m.config.StateMapping[adoState]
  ELSE IF adoState \in {"done", "closed", "removed"}
       THEN "closed"
       ELSE "open"

mapState(m, adoState) ==
  IF adoState \in DOMAIN m.config.StateMapping
  THEN m.config.StateMapping[adoState]
  ELSE IF ToLower(adoState) \in {"new", "active", "approved", "committed",
                                 "in progress", "resolved"}
       THEN "open"
       ELSE IF ToLower(adoState) \in {"done", "closed", "removed"}
            THEN "closed"
            ELSE "open"

RECURSIVE dedupFrom(_, _)
dedupFrom(labels, result) ==
  IF labels = <<>> THEN result
  ELSE LET label == Head(labels)
           seen == {result[n] : n \in DOMAIN result}
       IN IF label # "" /\ label \notin seen
          THEN dedupFrom(Tail(labels), Append(result, label))
          ELSE dedupFrom(Tail(labels), result)

\* deduplicateLabels keeping the last occurrence of a label
deduplicateLabels_keepsLast(labels) ==
  SelectSeq([n \in DOMAIN labels |->
               IF \E j \in DOMAIN labels : j > n /\ labels[j] = labels[n]
               THEN "" ELSE labels[n]],
            LAMBDA l : l # "")

deduplicateLabels(labels) == dedupFrom(labels, <<>>)

\* models.parseTagString on the parts strings.Split(tags, ";") returns
RECURSIVE parseTagString(_)
parseTagString(parts) ==
  IF parts = <<>> THEN <<>>
  ELSE LET trimmed == TrimSpace(Head(parts))
       IN IF trimmed # ""
          THEN <<trimmed>> \o parseTagString(Tail(parts))
          ELSE parseTagString(Tail(parts))

GetTags(workItem) == parseTagString(workItem.Fields.Tags)

RECURSIVE tagLabels(_)
tagLabels(tags) ==
  IF tags = <<>> THEN <<>>
  ELSE IF Head(tags) # ""
       THEN <<ToLower(TrimSpace(Head(tags)))>> \o tagLabels(Tail(tags))
       ELSE tagLabels(Tail(tags))

mapLabels(m, workItem) ==
  LET f == workItem.Fields
      workItemType == ToLower(f.WorkItemType)
      typeLabels == IF workItemType \in DOMAIN m.config.TypeMapping
                    THEN m.config.TypeMapping[workItemType] ELSE <<>>
      priorityLabels == IF f.Priority \in DOMAIN m.config.PriorityMapping
                        THEN m.config.PriorityMapping[f.Priority]
                        ELSE <<>>
      severityLabels == IF f.Severity # "" /\ m.config.IncludeSeverityLabel
                        THEN <<"severity:" \o ToLower(f.Severity)>> ELSE <<>>
      areaLabels == IF Len(f.AreaPath) > 1 /\ m.config.IncludeAreaPathLabel
                    THEN <<"area:" \o ToLower(f.AreaPath[Len(f.AreaPath)])>>
                    ELSE <<>>
  IN deduplicateLabels(typeLabels \o priorityLabels \o severityLabels
                       \o areaLabels \o tagLabels(GetTags(workItem)))

\* the first n candidates that is a key of the table, 0 when none is
firstKey(candidates, table) ==
  LET hits == {n \in DOMAIN candidates : candidates[n] \in DOMAIN table}
  IN IF hits = {} THEN 0
     ELSE CHOOSE n \in hits : \A j \in hits : n <= j

\* mapAssignees with the earlier fallback of the tool: when no candidate is
\* a key, the part of the e-mail address before the @ is the assignee
mapAssignees_emailFallback(m, workItem) ==
  LET assignedTo == workItem.Fields.AssignedTo
      candidates == <<ToLower(assignedTo.UniqueName),
                      ToLower(assignedTo.Email),
                      ToLower(assignedTo.DisplayName)>>
      hit == firstKey(candidates, m.userMapping)
  IN IF assignedTo.isNil THEN <<>>
     ELSE IF hit # 0 THEN <<m.userMapping[candidates[hit]]>>
     ELSE IF assignedTo.Email = "J.Doe@Example.com" THEN <<"J-Doe">>
     ELSE IF assignedTo.Email = "Other@Example.com" THEN <<"Other">>
     ELSE <<>>

mapAssignees(m, workItem) ==
  LET assignedTo == workItem.Fields.AssignedTo
      candidates == <<ToLower(assignedTo.UniqueName),
                      ToLower(assignedTo.Email),
                      ToLower(assignedTo.DisplayName)>>
      hit == firstKey(candidates, m.userMapping)
  IN IF assignedTo.isNil THEN <<>>
     ELSE IF hit # 0 THEN <<m.userMapping[candidates[hit]]>>
     ELSE <<>>

MapWorkItemToIssue(m, workItem) ==
  [SourceWIID |-> workItem.ID,
   State |-> mapState(m, workItem.Fields.State),
   Labels |-> mapLabels(m, workItem),
   Assignees |-> mapAssignees(m, workItem)]

\* Engine.mapper: runMigration builds it from the configuration of the run
mapper == NewMapper(FieldMapping, UserMapping)

(* --------------------------- state of the model ------------------------ *)

VARIABLES
  source,       \* the work items the configured query selects (IDs, in order)
  run,          \* number of runs started so far
  pc,           \* position of the current run in Engine.Run
  config,       \* config.MigrationConfig of the current run
  report,       \* Engine.report
  checkpoint,   \* Engine.checkpoint
  workItems,    \* the list GetWorkItems returned (IDs, in fetch order)
  i,            \* performMigration: start index of the current batch
  batchEnd,     \* performMigration: end index of the current batch
  k,            \* index of the next item (0-based, as in the Go slices)
  created,      \* processWorkItem: createdIssue.Number
  c,            \* processComments: number of comments created so far
  file,         \* ./migration_checkpoint.json
  issues,       \* the issues of the target repository, by number
  repoLabels,   \* the labels defined in the target repository
  calls,        \* calls of the current run (the two clients, the checkpoint
                \* file): <<operation, item, result>>
  saves,        \* results of the saveCheckpoint calls of the current run
  prev,         \* the previous run, if it was a live run that completed
  reportFile,   \* the report file of the current run
  cancelled,    \* runMigration: cancel() was called on the context of the run
  mapperIn,     \* a Mapper and a work item handed to it
  mapperOut,    \* the issue the Mapper returned for mapperIn
  last          \* the last call of the current run and its number

vars == <<source, run, pc, config, report, checkpoint, workItems, i, batchEnd,
          k, created, c, file, issues, repoLabels, calls, saves, prev,
          reportFile, cancelled, mapperIn, mapperOut, last>>

mapperVars == <<mapperIn, mapperOut>>

ItemLists == UNION {[1..n -> WorkItemIDs] : n \in 0..MaxItems}

SearchError == "failed to search for existing issues"
CreateError == "failed to create GitHub issue"

(* ------------------------ Engine: pure helpers -------------------------- *)

NewReport ==
  [TotalWorkItems |-> 0, SuccessfulCount |-> 0, FailedCount |-> 0,
   SkippedCount |-> 0, Mappings |-> <<>>, Errors |-> <<>>, EndTime |-> FALSE]

NewCheckpoint ==
  [LastProcessedID |-> 0, ProcessedItems |-> <<>>, FailedItems |-> <<>>,
   Mappings |-> <<>>]

\* isAlreadyProcessed looking into the failed items as well
isAlreadyProcessed_orFailed(cp, workItemID) ==
  \/ \E n \in DOMAIN cp.ProcessedItems : cp.ProcessedItems[n] = workItemID
  \/ \E n \in DOMAIN cp.FailedItems : cp.FailedItems[n] = workItemID

\* isAlreadyProcessed with the lookup left out
isAlreadyProcessed_never(cp, workItemID) == FALSE

isAlreadyProcessed(cp, workItemID) ==
  \E n \in DOMAIN cp.ProcessedItems : cp.ProcessedItems[n] = workItemID

\* recordMapping appending to the report only
recordMapping_reportOnly(e, workItemID, issueNumber, status, errorMsg) ==
  [report |-> [e.report EXCEPT !.Mappings = Append(@,
                 [AdoWorkItemID |-> workItemID, GitHubIssueID |-> issueNumber,
                  Status |-> status, ErrorMessage |-> errorMsg])],
   checkpoint |-> e.checkpoint]

\* the helpers below take and return the pair e = [report, checkpoint]
recordMapping(e, workItemID, issueNumber, status, errorMsg) ==
  LET mapping == [AdoWorkItemID |-> workItemID, GitHubIssueID |-> issueNumber,
                  Status |-> status, ErrorMessage |-> errorMsg]
  IN [report |-> [e.report EXCEPT !.Mappings = Append(@, mapping)],
      checkpoint |-> [e.checkpoint EXCEPT !.Mappings = Append(@, mapping)]]

\* recordSuccess without the increment of SuccessfulCount
recordSuccess_uncounted(e, workItemID, issueNumber) ==
  recordMapping(
    [report |-> e.report,
     checkpoint |-> [e.checkpoint EXCEPT
                       !.ProcessedItems = Append(@, workItemID)]],
    workItemID, issueNumber, "success", "")

recordSuccess(e, workItemID, issueNumber) ==
  recordMapping(
    [report |-> [e.report EXCEPT !.SuccessfulCount = @ + 1],
     checkpoint |-> [e.checkpoint EXCEPT
                       !.ProcessedItems = Append(@, workItemID)]],
    workItemID, issueNumber, "success", "")

\* recordFailure keeping the failed list free of repetitions
recordFailure_asSet(e, workItemID, errorMsg) ==
  recordMapping(
    [report |-> [e.report EXCEPT
                   !.FailedCount = @ + 1,
                   !.Errors = Append(@, <<workItemID, errorMsg>>)],
     checkpoint |-> [e.checkpoint EXCEPT
                       !.FailedItems =
                         IF \E n \in DOMAIN @ : @[n] = workItemID
                         THEN @ ELSE Append(@, workItemID)]],
    workItemID, 0, "failed", errorMsg)

\* recordFailure without the increment of FailedCount
recordFailure_uncounted(e, workItemID, errorMsg) ==
  recordMapping(
    [report |-> [e.report EXCEPT
                   !.Errors = Append(@, <<workItemID, errorMsg>>)],
     checkpoint |-> [e.checkpoint EXCEPT
                       !.FailedItems = Append(@, workItemID)]],
    workItemID, 0, "failed", errorMsg)

recordFailure(e, workItemID, errorMsg) ==
  recordMapping(
    [report |-> [e.report EXCEPT
                   !.FailedCount = @ + 1,
                   !.Errors = Append(@, <<workItemID, errorMsg>>)],
     checkpoint |-> [e.checkpoint EXCEPT
                       !.FailedItems = Append(@, workItemID)]],
    workItemID, 0, "failed", errorMsg)

\* processBatch returning at the first item that fails
itemFailed_abortBatch(e, workItemID, errorMsg, kk, bEnd) ==
  [e |-> [report |-> [e.report EXCEPT
                        !.FailedCount = @ + 1,
                        !.Errors = Append(@, <<workItemID, errorMsg>>),
                        !.Mappings = Append(@,
                           [AdoWorkItemID |-> workItemID, GitHubIssueID |-> 0,
                            Status |-> "failed", ErrorMessage |-> errorMsg])],
          checkpoint |-> [e.checkpoint EXCEPT
                        !.FailedItems = Append(@, workItemID),
                        !.Mappings = Append(@,
                           [AdoWorkItemID |-> workItemID, GitHubIssueID |-> 0,
                            Status |-> "failed", ErrorMessage |-> errorMsg])]],
   k |-> bEnd]

\* processBatch when processWorkItem returned an error for the item at index
\* kk of a batch that ends at bEnd: the failure is recorded and the loop
\* goes on with the next item
itemFailed(e, workItemID, errorMsg, kk, bEnd) ==
  [e |-> recordFailure(e, workItemID, errorMsg), k |-> kk + 1]

\* performMigration using the configured batch size as it is
effectiveBatchSize_asConfigured(cfg) == cfg.BatchSize

\* performMigration: the batch size actually used
effectiveBatchSize(cfg) ==
  IF cfg.BatchSize <= 0 THEN DefaultBatchSize ELSE cfg.BatchSize

Min(a, b) == IF a < b THEN a ELSE b

\* SearchIssues with a query that matches nothing
SearchIssues_blind(iss, workItemID) == {}

\* github.Client.SearchIssues: the numbers of the issues whose body holds the
\* work item ID (mapDescription writes it into the body of every issue)
SearchIssues(iss, workItemID) ==
  {n \in DOMAIN iss : iss[n].SourceWIID = workItemID}

\* processWorkItem ignoring the result of the search
issueExists_never(existingIssues) == FALSE

\* processWorkItem: the test that makes an item a duplicate
issueExists(existingIssues) == Cardinality(existingIssues) > 0

\* processWorkItem going on to CreateIssue when the search failed
searchFailed_failOpen(e, workItemID, kk, bEnd) ==
  [e |-> e, k |-> kk, pc |-> "create"]

\* processWorkItem when SearchIssues returned an error for the item at index
\* kk: it returns the error and processBatch records the failure
searchFailed(e, workItemID, kk, bEnd) ==
  LET r == itemFailed(e, workItemID, SearchError, kk, bEnd)
  IN [e |-> r.e, k |-> r.k, pc |-> "item"]

\* processWorkItem recording the item whose creation failed as processed
createFailed_markedProcessed(e, workItemID, kk, bEnd) ==
  [e |-> recordSuccess(e, workItemID, 0), k |-> kk + 1]

\* processWorkItem when CreateIssue returned an error for the item at index
\* kk: it returns the error and processBatch records the failure
createFailed(e, workItemID, kk, bEnd) ==
  itemFailed(e, workItemID, CreateError, kk, bEnd)

\* processWorkItem counting the duplicate without recording a mapping
duplicateSkipped_unrecorded(e, workItemID, issueNumber) ==
  [report |-> [e.report EXCEPT !.SkippedCount = @ + 1],
   checkpoint |-> e.checkpoint]

\* processWorkItem when the search returned issues, issueNumber being the
\* number of the first of them: the item is counted as skipped and the
\* mapping to that issue is recorded
duplicateSkipped(e, workItemID, issueNumber) ==
  recordMapping(
    [report |-> [e.report EXCEPT !.SkippedCount = @ + 1],
     checkpoint |-> e.checkpoint],
    workItemID, issueNumber, "skipped", "Issue already exists")

\* processWorkItem: what follows the comments, and what follows CreateIssue
\* processWorkItem without the state update
afterComments_neverCloses(issue) == "record"

afterComments(issue) == IF issue.State = "closed" THEN "close" ELSE "record"

afterCreate(cfg, issue) ==
  IF cfg.IncludeComments THEN "comments" ELSE afterComments(issue)

\* processWorkItem returning the error of processComments
commentsFailed_failsItem(e, issue, kk) ==
  [e |-> e, k |-> kk + 1, pc |-> "item"]

\* processWorkItem when processComments returned an error for the item at
\* index kk: a warning is logged and the item goes on
commentsFailed(e, issue, kk) ==
  [e |-> e, k |-> kk, pc |-> afterComments(issue)]

\* github.Client.ValidateLabels on the labels of one issue.  failAt = 0: no
\* call fails; failAt = n: the lookup of the n-th label fails (how =
\* "lookup") or the label is missing and its creation fails (how = "create").
\* Every label before the failing one that the repository lacks is created.
ValidateLabels(labels, repo, failAt, how) ==
  LET checked == IF failAt = 0 THEN labels ELSE SubSeq(labels, 1, failAt - 1)
      missing == SelectSeq(checked, LAMBDA l : l \notin repo)
  IN [repo |-> repo \cup {missing[n] : n \in DOMAIN missing},
      createdLabels |-> Len(missing),
      createFailed |-> failAt # 0 /\ how = "create",
      err |-> failAt # 0]

\* Run ignoring the error of testConnections
afterTest_ignored(ok, next) == next

\* Run and testConnections: a failed connection test ends the run
afterTest(ok, next) == IF ok THEN next ELSE "error"

\* Run without the DryRun branch
afterFetch_alwaysLive(cfg) == "loop"

\* Run: where it goes once the items are fetched
afterFetch(cfg) == IF cfg.DryRun THEN "dry" ELSE "loop"

MissingFile == [kind |-> "missing", data |-> NewCheckpoint]
CorruptFile == [kind |-> "corrupt", data |-> NewCheckpoint]

\* a checkpoint file that is well-formed JSON with a value of the wrong type,
\* {"processed_items": [101], "failed_items": "none"}; data holds the fields
\* that have the right type
MistypedFile ==
  [kind |-> "mistyped",
   data |-> [NewCheckpoint EXCEPT !.ProcessedItems = <<101>>]]

\* loadCheckpoint dropping the failed items of the file
ReadAndUnmarshal_forgetsFailed(f, readable, cp) ==
  IF ~readable \/ f.kind # "ok" THEN [checkpoint |-> cp, err |-> TRUE]
  ELSE [checkpoint |-> [f.data EXCEPT !.FailedItems = <<>>], err |-> FALSE]

\* loadCheckpoint: os.ReadFile followed by json.Unmarshal(data, e.checkpoint).
\* Unmarshal checks the syntax of the whole text before it stores anything;
\* on a value of the wrong type it skips that field, stores the others into
\* e.checkpoint and returns the type error.
ReadAndUnmarshal(f, readable, cp) ==
  IF ~readable \/ f.kind = "missing" THEN [checkpoint |-> cp, err |-> TRUE]
  ELSE IF f.kind = "corrupt" THEN [checkpoint |-> cp, err |-> TRUE]
  ELSE IF f.kind = "mistyped" THEN [checkpoint |-> f.data, err |-> TRUE]
  ELSE [checkpoint |-> f.data, err |-> FALSE]

\* saveCheckpoint writing the processed items only
SavedFile_withoutFailed(cp) ==
  [kind |-> "ok", data |-> [cp EXCEPT !.FailedItems = <<>>]]

\* saveCheckpoint: the file a successful write leaves
SavedFile(cp) == [kind |-> "ok", data |-> cp]

\* performDryRun going on without counting the failed validation
dryRunFailed_uncounted(r) == r

\* performDryRun when ValidateLabels returned an error: the error is logged
\* and the item is counted as failed
dryRunFailed(r) == [r EXCEPT !.FailedCount = @ + 1]

\* performDryRun counting the item as skipped
dryRunSucceeded_countedSkipped(r) == [r EXCEPT !.SkippedCount = @ + 1]

\* performDryRun when ValidateLabels returned no error
dryRunSucceeded(r) == [r EXCEPT !.SuccessfulCount = @ + 1]

\* performMigration stopping at a checkpoint that cannot be saved
afterSave_fatal(ok) == IF ok THEN "delay" ELSE "error"

\* performMigration: the error of saveCheckpoint is logged as a warning
afterSave(ok) == "delay"

cur == WorkItem(workItems[k + 1])

engine == [report |-> report, checkpoint |-> checkpoint]

\* no readable report file: SaveReport was not called, or it failed on the
\* directory, on the encoding or on the write (the tool never reads a report,
\* so that a truncated file and no file are not told apart)
MissingReport == [kind |-> "missing", data |-> NewReport]

\* SaveReport: the file a successful write leaves
SavedReport(r) == [kind |-> "ok", data |-> r]

\* a call of a client with the context of the run: once the context is
\* cancelled the request is not sent and the call returns the error of the
\* context
CallResults(isCancelled) == IF isCancelled THEN {FALSE} ELSE BOOLEAN

\* the positions of Engine.Run; at "done" Run has returned the report to
\* runMigration
Running == {"load", "testADO", "testGitHub", "fetch", "dry", "loop", "item",
            "create", "comments", "comment", "close", "record", "delay"}

\* the tool is not running: not started yet, or runMigration has returned
\* nil ("exit") or the error of Engine.Run ("error")
Stopped == {"idle", "exit", "error"}

NoPrev == [live |-> FALSE, failed |-> 0]

\* no call was made in the run yet
NoCall == [n |-> 0, op |-> "", id |-> 0, ok |-> TRUE]

\* the call that follows the call l
Call(l, op, id, ok) == [n |-> l.n + 1, op |-> op, id |-> id, ok |-> ok]

(* ------------------------------- Init ---------------------------------- *)

\* the state before the first run, but for the work items the query
\* selects, the checkpoint file and the work item handed to a Mapper
InitEngine ==
  /\ run = 0
  /\ pc = "idle"
  /\ config = [DryRun |-> FALSE, ResumeFromCheckpoint |-> FALSE,
               IncludeComments |-> FALSE, BatchSize |-> 0]
  /\ report = NewReport
  /\ checkpoint = NewCheckpoint
  /\ workItems = <<>>
  /\ i = 0
  /\ batchEnd = 0
  /\ k = 0
  /\ created = 0
  /\ c = 0
  /\ issues = <<>>
  /\ repoLabels = {}
  /\ calls = {}
  /\ saves = <<>>
  /\ prev = NoPrev
  /\ reportFile = MissingReport
  /\ cancelled = FALSE
  /\ last = NoCall

\* no Mapper is called outside a run
NoMapping ==
  /\ mapperIn = [m |-> mapper, workItem |-> WorkItem(101)]
  /\ mapperOut = <<>>

\* the first run finds no checkpoint file
Init ==
  /\ InitEngine
  /\ source \in ItemLists
  /\ file = MissingFile
  /\ NoMapping

\* the first run finds no checkpoint file, or one that was not written by
\* saveCheckpoint
InitAnyFile ==
  /\ InitEngine
  /\ source \in ItemLists
  /\ file \in {MissingFile, MistypedFile}
  /\ NoMapping

(* ------------------- the command line: one run of the tool ------------- *)

\* runMigration up to engine.Run: a fresh Engine (NewEngine) with the
\* configuration of this run, a fresh context, and a report file named by
\* the start time of the run.  IncludeComments and BatchSize are read by
\* performMigration only, so a dry run is started with one value of each.
NewRun ==
  /\ run < MaxRuns
  /\ run' = run + 1
  /\ \E dry \in BOOLEAN, resume \in BOOLEAN, comments \in BOOLEAN,
        bs \in BatchSizes :
       /\ dry => (~comments /\ bs = 0)
       /\ config' = [DryRun |-> dry, ResumeFromCheckpoint |-> resume,
                     IncludeComments |-> comments, BatchSize |-> bs]
       /\ pc' = IF resume THEN "load" ELSE "testADO"
  /\ report' = NewReport
  /\ checkpoint' = NewCheckpoint
  /\ workItems' = <<>>
  /\ i' = 0 /\ batchEnd' = 0 /\ k' = 0 /\ created' = 0 /\ c' = 0
  /\ calls' = {}
  /\ last' = NoCall
  /\ saves' = <<>>
  /\ reportFile' = MissingReport
  /\ cancelled' = FALSE
  /\ UNCHANGED <<source, issues, repoLabels, mapperVars>>

\* the tool is started after the previous run has returned
StartRun ==
  /\ pc \in Stopped
  /\ NewRun
  /\ UNCHANGED file
  /\ prev' = IF pc = "exit" /\ ~config.DryRun
             THEN [live |-> TRUE, failed |-> report.FailedCount]
             ELSE NoPrev

\* the process dies (kill, power loss, panic) anywhere in Engine.Run and the
\* tool is started again
CrashAndRestart ==
  /\ pc \in Running \cup {"done"}
  /\ NewRun
  /\ UNCHANGED file
  /\ prev' = NoPrev

(* ------------------------------ Engine.Run ----------------------------- *)

\* loadCheckpoint; readable = FALSE is a read error on an existing file
loadCheckpoint ==
  /\ pc = "load"
  /\ \E readable \in BOOLEAN :
       LET r == ReadAndUnmarshal(file, readable, checkpoint)
       IN /\ checkpoint' = r.checkpoint
          /\ calls' = calls \cup {<<"loadCheckpoint", 0, ~r.err>>}
          /\ last' = Call(last, "loadCheckpoint", 0, ~r.err)
  /\ pc' = "testADO"
  /\ UNCHANGED <<source, run, config, report, workItems, i, batchEnd, k,
                 created, c, file, issues, repoLabels, saves, prev,
                 reportFile, cancelled, mapperVars>>

\* testConnections, first half
testConnectionADO ==
  /\ pc = "testADO"
  /\ \E ok \in CallResults(cancelled) :
       /\ calls' = calls \cup {<<"ado.TestConnection", 0, ok>>}
       /\ last' = Call(last, "ado.TestConnection", 0, ok)
       /\ pc' = afterTest(ok, "testGitHub")
  /\ UNCHANGED <<source, run, config, report, checkpoint, workItems, i,
                 batchEnd, k, created, c, file, issues, repoLabels, saves,
                 prev, reportFile, cancelled, mapperVars>>

\* testConnections, second half
testConnectionGitHub ==
  /\ pc = "testGitHub"
  /\ \E ok \in CallResults(cancelled) :
       /\ calls' = calls \cup {<<"github.TestConnection", 0, ok>>}
       /\ last' = Call(last, "github.TestConnection", 0, ok)
       /\ pc' = afterTest(ok, "fetch")
  /\ UNCHANGED <<source, run, config, report, checkpoint, workItems, i,
                 batchEnd, k, created, c, file, issues, repoLabels, saves,
                 prev, reportFile, cancelled, mapperVars>>

GetWorkItems ==
  /\ pc = "fetch"
  /\ \/ /\ calls' = calls \cup {<<"GetWorkItems", 0, FALSE>>}
        /\ last' = Call(last, "GetWorkItems", 0, FALSE)
        /\ pc' = "error"
        /\ UNCHANGED <<workItems, report>>
     \/ /\ TRUE \in CallResults(cancelled)
        /\ calls' = calls \cup {<<"GetWorkItems", 0, TRUE>>}
        /\ last' = Call(last, "GetWorkItems", 0, TRUE)
        /\ workItems' = source
        /\ report' = [report EXCEPT !.TotalWorkItems = Len(source)]
        /\ pc' = afterFetch(config)
  /\ UNCHANGED <<source, run, config, checkpoint, i, batchEnd, k, created, c,
                 file, issues, repoLabels, saves, prev,
                 reportFile, cancelled, mapperVars>>

(* ---------------------------- performDryRun ---------------------------- *)

\* one iteration of the loop of performDryRun.  With a cancelled context
\* the lookup of the first label returns no response, ValidateLabels reads
\* resp.StatusCode and the process dies (CrashAndRestart).
dryRunItem ==
  /\ pc = "dry"
  /\ k < Len(workItems)
  /\ LET issue == MapWorkItemToIssue(mapper, cur)
     IN \E failAt \in 0..Len(issue.Labels), how \in {"lookup", "create"} :
          /\ cancelled => issue.Labels = <<>>
          /\ failAt = 0 => how = "lookup"
          /\ how = "create" => issue.Labels[failAt] \notin repoLabels
          /\ LET v == ValidateLabels(issue.Labels, repoLabels, failAt, how)
             IN /\ repoLabels' = v.repo
                /\ calls' = calls
                     \cup {<<"ValidateLabels", cur.ID, ~v.err>>}
                     \cup (IF v.createdLabels > 0
                           THEN {<<"CreateLabel", cur.ID, TRUE>>} ELSE {})
                     \cup (IF v.createFailed
                           THEN {<<"CreateLabel", cur.ID, FALSE>>} ELSE {})
                /\ last' = Call(last, "ValidateLabels", cur.ID, ~v.err)
                /\ report' = IF v.err
                             THEN dryRunFailed(report)
                             ELSE dryRunSucceeded(report)
  /\ k' = k + 1
  /\ UNCHANGED <<source, run, pc, config, checkpoint, workItems, i, batchEnd,
                 created, c, file, issues, saves, prev,
                 reportFile, cancelled, mapperVars>>

\* the end of performDryRun: the report is returned
dryRunDone ==
  /\ pc = "dry"
  /\ k = Len(workItems)
  /\ report' = [report EXCEPT !.EndTime = TRUE]
  /\ pc' = "done"
  /\ UNCHANGED <<source, run, config, checkpoint, workItems, i, batchEnd, k,
                 created, c, file, issues, repoLabels, calls, saves, prev,
                 reportFile, cancelled, mapperVars, last>>

(* --------------------------- performMigration -------------------------- *)

\* the head of the batch loop: the next batch, or the end of the run
nextBatch ==
  /\ pc = "loop"
  /\ i < Len(workItems)
  /\ batchEnd' = Min(i + effectiveBatchSize(config), Len(workItems))
  /\ k' = i
  /\ pc' = "item"
  /\ UNCHANGED <<source, run, config, report, checkpoint, workItems, i,
                 created, c, file, issues, repoLabels, calls, saves, prev,
                 reportFile, cancelled, mapperVars, last>>

migrationDone ==
  /\ pc = "loop"
  /\ i >= Len(workItems)
  /\ report' = [report EXCEPT !.EndTime = TRUE]
  /\ pc' = "done"
  /\ UNCHANGED <<source, run, config, checkpoint, workItems, i, batchEnd, k,
                 created, c, file, issues, repoLabels, calls, saves, prev,
                 reportFile, cancelled, mapperVars, last>>

\* processWorkItem, the item is in the checkpoint's processed list
skipProcessed ==
  /\ pc = "item"
  /\ k < batchEnd
  /\ isAlreadyProcessed(checkpoint, cur.ID)
  /\ report' = [report EXCEPT !.SkippedCount = @ + 1]
  /\ k' = k + 1
  /\ UNCHANGED <<source, run, pc, config, checkpoint, workItems, i, batchEnd,
                 created, c, file, issues, repoLabels, calls, saves, prev,
                 reportFile, cancelled, mapperVars, last>>

\* processWorkItem, the duplicate search and what it decides
searchIssues ==
  /\ pc = "item"
  /\ k < batchEnd
  /\ ~isAlreadyProcessed(checkpoint, cur.ID)
  /\ \/ \* the search fails
        LET r == searchFailed(engine, cur.ID, k, batchEnd)
        IN /\ calls' = calls \cup {<<"SearchIssues", cur.ID, FALSE>>}
           /\ last' = Call(last, "SearchIssues", cur.ID, FALSE)
           /\ report' = r.e.report
           /\ checkpoint' = r.e.checkpoint
           /\ k' = r.k
           /\ pc' = r.pc
     \/ LET existingIssues == SearchIssues(issues, cur.ID)
        IN /\ TRUE \in CallResults(cancelled)
           /\ calls' = calls \cup {<<"SearchIssues", cur.ID, TRUE>>}
           /\ last' = Call(last, "SearchIssues", cur.ID, TRUE)
           /\ IF issueExists(existingIssues)
              THEN \E first \in existingIssues :
                     LET e == duplicateSkipped(engine, cur.ID, first)
                     IN /\ report' = e.report
                        /\ checkpoint' = e.checkpoint
                        /\ k' = k + 1
                        /\ pc' = "item"
              ELSE /\ pc' = "create"
                   /\ UNCHANGED <<report, checkpoint, k>>
  /\ UNCHANGED <<source, run, config, workItems, i, batchEnd, created, c,
                 file, issues, repoLabels, saves, prev,
                 reportFile, cancelled, mapperVars>>

\* an issue whose body does not hold the work item ID
NewIssue_withoutID(id) == [SourceWIID |-> 0]

\* the issue CreateIssue adds to the repository
NewIssue(id) == [SourceWIID |-> id]

\* processWorkItem, CreateIssue.  A failed call may still have created the
\* issue on the server (the response was lost).
createIssue ==
  /\ pc = "create"
  /\ \/ /\ TRUE \in CallResults(cancelled)
        /\ calls' = calls \cup {<<"CreateIssue", cur.ID, TRUE>>}
        /\ last' = Call(last, "CreateIssue", cur.ID, TRUE)
        /\ issues' = Append(issues, NewIssue(cur.ID))
        /\ created' = Len(issues) + 1
        /\ pc' = afterCreate(config, MapWorkItemToIssue(mapper, cur))
        /\ UNCHANGED <<report, checkpoint, k>>
     \/ /\ calls' = calls \cup {<<"CreateIssue", cur.ID, FALSE>>}
        /\ last' = Call(last, "CreateIssue", cur.ID, FALSE)
        /\ \E lost \in CallResults(cancelled) :
             issues' = IF lost THEN Append(issues, NewIssue(cur.ID))
                       ELSE issues
        /\ LET r == createFailed(engine, cur.ID, k, batchEnd)
           IN /\ report' = r.e.report
              /\ checkpoint' = r.e.checkpoint
              /\ k' = r.k
        /\ pc' = "item"
        /\ UNCHANGED created
  /\ c' = 0
  /\ UNCHANGED <<source, run, config, workItems, i, batchEnd, file,
                 repoLabels, saves, prev,
                 reportFile, cancelled, mapperVars>>

\* processComments, GetWorkItemComments
getWorkItemComments ==
  /\ pc = "comments"
  /\ \/ /\ TRUE \in CallResults(cancelled)
        /\ calls' = calls \cup {<<"GetWorkItemComments", cur.ID, TRUE>>}
        /\ last' = Call(last, "GetWorkItemComments", cur.ID, TRUE)
        /\ pc' = IF cur.NumComments > 0 THEN "comment"
                 ELSE afterComments(MapWorkItemToIssue(mapper, cur))
        /\ UNCHANGED <<report, checkpoint, k>>
     \/ /\ calls' = calls \cup {<<"GetWorkItemComments", cur.ID, FALSE>>}
        /\ last' = Call(last, "GetWorkItemComments", cur.ID, FALSE)
        /\ LET r == commentsFailed(engine,
                                   MapWorkItemToIssue(mapper, cur), k)
           IN /\ report' = r.e.report
              /\ checkpoint' = r.e.checkpoint
              /\ k' = r.k
              /\ pc' = r.pc
  /\ UNCHANGED <<source, run, config, workItems, i, batchEnd, created, c,
                 file, issues, repoLabels, saves, prev,
                 reportFile, cancelled, mapperVars>>

\* processComments, one iteration of the loop over the mapped comments
createIssueComment ==
  /\ pc = "comment"
  /\ \/ /\ TRUE \in CallResults(cancelled)
        /\ calls' = calls \cup {<<"CreateIssueComment", cur.ID, TRUE>>}
        /\ last' = Call(last, "CreateIssueComment", cur.ID, TRUE)
        /\ c' = c + 1
        /\ pc' = IF c + 1 < cur.NumComments THEN "comment"
                 ELSE afterComments(MapWorkItemToIssue(mapper, cur))
        /\ UNCHANGED <<report, checkpoint, k>>
     \/ /\ calls' = calls \cup {<<"CreateIssueComment", cur.ID, FALSE>>}
        /\ last' = Call(last, "CreateIssueComment", cur.ID, FALSE)
        /\ LET r == commentsFailed(engine,
                                   MapWorkItemToIssue(mapper, cur), k)
           IN /\ report' = r.e.report
              /\ checkpoint' = r.e.checkpoint
              /\ k' = r.k
              /\ pc' = r.pc
        /\ UNCHANGED c
  /\ UNCHANGED <<source, run, config, workItems, i, batchEnd, created, file,
                 issues, repoLabels, saves, prev,
                 reportFile, cancelled, mapperVars>>

\* processWorkItem, UpdateIssueState of an item mapped to closed
updateIssueState ==
  /\ pc = "close"
  /\ \E ok \in CallResults(cancelled) :
       /\ calls' = calls \cup {<<"UpdateIssueState", cur.ID, ok>>}
       /\ last' = Call(last, "UpdateIssueState", cur.ID, ok)
  /\ pc' = "record"
  /\ UNCHANGED <<source, run, config, report, checkpoint, workItems, i,
                 batchEnd, k, created, c, file, issues, repoLabels, saves,
                 prev, reportFile, cancelled, mapperVars>>

\* processWorkItem, its last three statements
itemSucceeded ==
  /\ pc = "record"
  /\ LET e == recordSuccess(engine, cur.ID, created)
     IN /\ report' = e.report
        /\ checkpoint' = [e.checkpoint EXCEPT !.LastProcessedID = cur.ID]
  /\ k' = k + 1
  /\ pc' = "item"
  /\ UNCHANGED <<source, run, config, workItems, i, batchEnd, created, c,
                 file, issues, repoLabels, calls, saves, prev,
                 reportFile, cancelled, mapperVars, last>>

\* saveCheckpoint after processBatch returned.  os.WriteFile truncates the
\* file before it writes, so a failed write leaves the old file or a broken
\* one.
saveCheckpoint ==
  /\ pc = "item"
  /\ k = batchEnd
  /\ \/ /\ file' = SavedFile(checkpoint)
        /\ saves' = Append(saves, TRUE)
        /\ pc' = afterSave(TRUE)
     \/ /\ file' \in {file, CorruptFile}
        /\ saves' = Append(saves, FALSE)
        /\ pc' = afterSave(FALSE)
  /\ UNCHANGED <<source, run, config, report, checkpoint, workItems, i,
                 batchEnd, k, created, c, issues, repoLabels, calls, prev,
                 reportFile, cancelled, mapperVars, last>>

\* the process dies inside os.WriteFile and the tool is started again
crashInSave ==
  /\ pc = "item"
  /\ k = batchEnd
  /\ file' = CorruptFile
  /\ NewRun
  /\ prev' = NoPrev

\* the rate-limiting sleep and the increment of the batch loop
delay ==
  /\ pc = "delay"
  /\ i' = i + effectiveBatchSize(config)
  /\ pc' = "loop"
  /\ UNCHANGED <<source, run, config, report, checkpoint, workItems, batchEnd,
                 k, created, c, file, issues, repoLabels, calls, saves, prev,
                 reportFile, cancelled, mapperVars, last>>

(* ------------------------- runMigration, the end ----------------------- *)

\* runMigration after Engine.Run returned the report: SaveReport, whose
\* error is logged as a warning, the summary, and the return of nil
SaveReport ==
  /\ pc = "done"
  /\ \/ /\ reportFile' = SavedReport(report)
        /\ calls' = calls \cup {<<"SaveReport", 0, TRUE>>}
        /\ last' = Call(last, "SaveReport", 0, TRUE)
     \/ /\ reportFile' = MissingReport
        /\ calls' = calls \cup {<<"SaveReport", 0, FALSE>>}
        /\ last' = Call(last, "SaveReport", 0, FALSE)
  /\ pc' = "exit"
  /\ UNCHANGED <<source, run, config, report, checkpoint, workItems, i,
                 batchEnd, k, created, c, file, issues, repoLabels, saves,
                 prev, cancelled, mapperVars>>

\* runMigration, the goroutine that waits for SIGINT or SIGTERM: cancel()
cancel ==
  /\ pc \in Running \cup {"done"}
  /\ ~cancelled
  /\ cancelled' = TRUE
  /\ UNCHANGED <<source, run, pc, config, report, checkpoint, workItems, i,
                 batchEnd, k, created, c, file, issues, repoLabels, calls,
                 saves, prev, reportFile, mapperVars, last>>

(* ------------------------------ the system ----------------------------- *)

Next ==
  \/ StartRun
  \/ CrashAndRestart
  \/ loadCheckpoint
  \/ testConnectionADO
  \/ testConnectionGitHub
  \/ GetWorkItems
  \/ dryRunItem
  \/ dryRunDone
  \/ nextBatch
  \/ migrationDone
  \/ skipProcessed
  \/ searchIssues
  \/ createIssue
  \/ getWorkItemComments
  \/ createIssueComment
  \/ updateIssueState
  \/ itemSucceeded
  \/ saveCheckpoint
  \/ crashInSave
  \/ delay
  \/ SaveReport

Spec == Init /\ [][Next]_vars

\* the steps of runMigration and of Engine.Run
RunStep ==
  \/ loadCheckpoint
  \/ testConnectionADO
  \/ testConnectionGitHub
  \/ GetWorkItems
  \/ dryRunItem
  \/ dryRunDone
  \/ nextBatch
  \/ migrationDone
  \/ skipProcessed
  \/ searchIssues
  \/ createIssue
  \/ getWorkItemComments
  \/ createIssueComment
  \/ updateIssueState
  \/ itemSucceeded
  \/ saveCheckpoint
  \/ delay
  \/ SaveReport

\* the tool is started for the first time
FirstRun == run = 0 /\ StartRun

NextLive == FirstRun \/ RunStep

\* one run of the tool whose process is not killed: Engine.Run is
\* sequential code, every call of a client or of the file system returns,
\* and the sleep between two batches ends
SpecLive == Init /\ [][NextLive]_vars /\ WF_vars(RunStep)

\* the runs of the tool with an interrupt signal at any point of a run.  An
\* interrupt makes the calls that follow fail, and Spec lets any call fail.
NextCancel == Next \/ cancel

SpecCancel == Init /\ [][NextCancel]_vars

\* the runs of the tool in a directory that may hold a checkpoint file of
\* another origin
SpecAnyFile == InitAnyFile /\ [][Next]_vars

(* ------------------------- the mapper on its own ----------------------- *)

\* a Mapper without tables, as in the tests of the default mappings
NoTables ==
  NewMapper([StateMapping |-> [s \in {} |-> ""],
             TypeMapping |-> [t \in {} |-> <<>>],
             PriorityMapping |-> [p \in {} |-> <<>>],
             IncludeSeverityLabel |-> FALSE,
             IncludeAreaPathLabel |-> FALSE],
            [u \in {} |-> ""])

\* the Mapper of the configuration that createDefaultConfig writes and the
\* README shows
DefaultConfig ==
  NewMapper([StateMapping |->
               [st \in {"New", "Active", "Resolved", "Closed", "Done"} |->
                  IF st \in {"Closed", "Done"} THEN "closed" ELSE "open"],
             TypeMapping |->
               [t \in {"Bug", "User Story", "Task", "Epic"} |->
                  CASE t = "Bug" -> <<"bug">>
                    [] t = "User Story" -> <<"enhancement">>
                    [] t = "Task" -> <<"task">>
                    [] t = "Epic" -> <<"epic">>],
             PriorityMapping |->
               [p \in {"1", "2", "3", "4"} |->
                  CASE p = "1" -> <<"priority:critical">>
                    [] p = "2" -> <<"priority:high">>
                    [] p = "3" -> <<"priority:medium">>
                    [] p = "4" -> <<"priority:low">>],
             IncludeSeverityLabel |-> TRUE,
             IncludeAreaPathLabel |-> TRUE],
            [u \in {} |-> ""])

\* a Mapper whose tables overrule the built-in states, repeat labels of the
\* tags and hold an empty label, and whose identity table has a key for
\* each of the three candidates
CustomTables ==
  NewMapper([StateMapping |->
               [st \in {"done", "Unknown"} |->
                  IF st = "done" THEN "open" ELSE "closed"],
             TypeMapping |->
               [t \in {"bug", "task"} |->
                  IF t = "bug" THEN <<"bug", "urgent">> ELSE <<"task">>],
             PriorityMapping |->
               [p \in {"1"} |-> <<"urgent", "", "priority:critical">>],
             IncludeSeverityLabel |-> TRUE,
             IncludeAreaPathLabel |-> FALSE],
            [u \in {"jdoe", "j.doe@example.com", "john doe"} |->
               CASE u = "jdoe" -> "jd-login"
                 [] u = "j.doe@example.com" -> "jd-email"
                 [] u = "john doe" -> "jd-name"])

\* a Mapper with the area label only and an identity table without logins
AreaOnly ==
  NewMapper([FieldMapping EXCEPT !.IncludeSeverityLabel = FALSE],
            [u \in {"other@example.com", "john doe"} |->
               IF u = "john doe" THEN "jd-name" ELSE "other-email"])

Mappers == {mapper, NoTables, DefaultConfig, CustomTables, AreaOnly}

\* the work items handed to a Mapper
MapperWorkItems ==
  [ID : {101},
   Fields : [State : {"New", "done", "Closed", "REMOVED", "Unknown", ""},
             WorkItemType : {"Bug", "Task", ""},
             Priority : {"", "1"},
             Severity : {"", "High"},
             AreaPath : {<<>>, <<"Proj">>, <<"Proj", "Login">>},
             Tags : {<<>>, <<"Urgent", " urgent">>, <<"bug", " ", "Urgent">>},
             AssignedTo : {NoUser,
                           User("JDoe", "J.Doe@Example.com", "John Doe"),
                           User("", "Other@Example.com", "John Doe")}],
   NumComments : {0}]

InitMapper ==
  /\ InitEngine
  /\ source = <<>>
  /\ file = MissingFile
  /\ mapperIn \in [m : Mappers, workItem : MapperWorkItems]
  /\ mapperOut = <<>>

\* a call of MapWorkItemToIssue
MapWorkItem ==
  /\ mapperOut = <<>>
  /\ mapperOut' = <<MapWorkItemToIssue(mapperIn.m, mapperIn.workItem)>>
  /\ UNCHANGED <<source, run, pc, config, report, checkpoint, workItems, i,
                 batchEnd, k, created, c, file, issues, repoLabels, calls,
                 saves, prev, reportFile, cancelled, mapperIn, last>>

NextMapper == MapWorkItem

SpecMapper == InitMapper /\ [][NextMapper]_vars

(* ------------------------- notions used by the claims ------------------ *)

ProcessedSet(cp) == {cp.ProcessedItems[n] : n \in DOMAIN cp.ProcessedItems}

FailedSet(cp) == {cp.FailedItems[n] : n \in DOMAIN cp.FailedItems}

\* the operations of the two clients that act on one work item
ItemOps == {"SearchIssues", "CreateIssue", "GetWorkItemComments",
            "CreateIssueComment", "UpdateIssueState", "ValidateLabels",
            "CreateLabel"}

\* the calls of the current run made for work item id
CallsFor(id) == {call \in calls : call[2] = id}

\* the positions of processWorkItem
ItemPcs == {"item", "create", "comments", "comment", "close", "record"}

(* ------------------------------- C1 ------------------------------------ *)

\* C1: over all runs of a behaviour (completed, crashed anywhere, resumed,
\* started without a checkpoint) the target repository never holds more than
\* one issue for the same work item ID; the duplicate search of the model
\* returns every issue that refers to the ID.
C1_AtMostOneIssuePerItem ==
  \A id \in WorkItemIDs : Cardinality(SearchIssues(issues, id)) <= 1

\* a second run finds the issue of an item that no checkpoint knows (the
\* first run died before its checkpoint was saved) and skips the item
C1_Witness ==
  /\ run = 2
  /\ file.kind = "missing"
  /\ ~config.DryRun
  /\ \E n \in DOMAIN report.Mappings :
       /\ report.Mappings[n].Status = "skipped"
       /\ report.Mappings[n].GitHubIssueID \in DOMAIN issues
       /\ report.Mappings[n].AdoWorkItemID \notin ProcessedSet(checkpoint)

(* ------------------------------- C2 ------------------------------------ *)

\* a run that follows a completed live run and is itself a live run
SecondLiveRun == prev.live /\ ~config.DryRun

\* C2 as stated: when a live run has completed, the next live run over the
\* same work items creates no issue and ends with every item skipped.
C2_SecondRunSkipsAll ==
  [][(SecondLiveRun /\ run' = run) =>
       /\ issues' = issues
       /\ (pc' = "done" =>
             report'.SkippedCount = report'.TotalWorkItems)]_vars

\* C2 as amended: when a live run has completed without a failed item, the
\* next live run over the same work items creates no issue and counts no item
\* as successful; it ends with every item skipped, except the items whose
\* duplicate search failed, which are recorded as failed with the search
\* error.
C2_SecondRunAfterCleanRun ==
  [][(SecondLiveRun /\ prev.failed = 0 /\ run' = run) =>
       /\ issues' = issues
       /\ report'.SuccessfulCount = 0
       /\ \A n \in DOMAIN report'.Errors :
            report'.Errors[n][2] = SearchError
       /\ (pc' = "done" =>
             report'.SkippedCount + Len(report'.Errors)
               = report'.TotalWorkItems)]_vars

\* the second run has ended with both items skipped, one through the loaded
\* checkpoint and one through the duplicate search
C2_Witness ==
  /\ SecondLiveRun
  /\ prev.failed = 0
  /\ pc = "done"
  /\ report.TotalWorkItems = 2
  /\ report.SkippedCount = 2
  /\ Len(report.Mappings) = 1
  /\ ProcessedSet(checkpoint) # {}

(* ------------------------------- C3 ------------------------------------ *)

\* C3: while a live run is at an item whose ID is in the processed list of
\* the checkpoint, the only step it takes counts the item as skipped and goes
\* to the next item: no call is made, no mapping is recorded, the repository
\* and the checkpoint stay as they are.
C3_ProcessedItemIsSkippedWithoutCalls ==
  [][(/\ run' = run
      /\ ~config.DryRun
      /\ pc \in ItemPcs
      /\ k < batchEnd
      /\ cur.ID \in ProcessedSet(checkpoint)) =>
       /\ calls' = calls
       /\ issues' = issues
       /\ checkpoint' = checkpoint
       /\ report' = [report EXCEPT !.SkippedCount = @ + 1]
       /\ k' = k + 1]_vars

\* the scenario of the specification: the loaded checkpoint holds 101, the
\* items 101 and 102 are fetched, 101 was skipped and only 102 has calls
C3_Witness ==
  /\ config.ResumeFromCheckpoint
  /\ ~config.DryRun
  /\ workItems = <<101, 102>>
  /\ ProcessedSet(checkpoint) = {101}
  /\ report.SkippedCount = 1
  /\ CallsFor(101) = {}
  /\ CallsFor(102) # {}

(* ------------------------------- C4 ------------------------------------ *)

Counted == report.SuccessfulCount + report.FailedCount + report.SkippedCount

\* C4: the three counters never add up to more than the number of fetched
\* items, and they add up to exactly that number when Run has returned the
\* report (dry run or live run, resumed or not).
C4_CountersAddUp ==
  /\ Counted <= report.TotalWorkItems
  /\ (pc = "done" => Counted = report.TotalWorkItems)

\* a resumed live run has returned with one item skipped and one failed
C4_Witness ==
  /\ pc = "done"
  /\ ~config.DryRun
  /\ config.ResumeFromCheckpoint
  /\ ProcessedSet(checkpoint) # {}
  /\ report.SkippedCount = 1
  /\ report.FailedCount = 1

(* ------------------------------- C5 ------------------------------------ *)

FailedMapping(id, msg) ==
  [AdoWorkItemID |-> id, GitHubIssueID |-> 0, Status |-> "failed",
   ErrorMessage |-> msg]

\* C5: a step in which an item ends at CreateIssue, which is the step in
\* which CreateIssue fails, adds the ID to the failed list and
\* not to the processed list, records a failed mapping with the error text
\* and moves to the next item of the batch; a live run never ends in an
\* error once the items are fetched, and it returns only when every fetched
\* item has been handled.
C5_CreateFailureIsIsolated ==
  [][(run' = run /\ ~config.DryRun) =>
       /\ (pc = "create" /\ pc' = "item" =>
             /\ <<"CreateIssue", cur.ID, FALSE>> \in calls'
             /\ checkpoint'.FailedItems
                  = Append(checkpoint.FailedItems, cur.ID)
             /\ checkpoint'.ProcessedItems = checkpoint.ProcessedItems
             /\ report'.Mappings
                  = Append(report.Mappings, FailedMapping(cur.ID, CreateError))
             /\ report'.Errors
                  = Append(report.Errors, <<cur.ID, CreateError>>)
             /\ report'.FailedCount = report.FailedCount + 1
             /\ k' = k + 1
             /\ batchEnd' = batchEnd
             /\ pc' = "item")
       /\ (pc \in ItemPcs \cup {"loop", "delay"} => pc' # "error")
       /\ (pc' = "done" => k' = Len(workItems') /\ report'.EndTime)]_vars

\* a run has returned its report after the creation of the first item failed
\* and the second item, in the same batch, was created
C5_Witness ==
  /\ pc = "done"
  /\ ~config.DryRun
  /\ config.BatchSize = 0
  /\ workItems = <<101, 102>>
  /\ <<"CreateIssue", 101, FALSE>> \in calls
  /\ FailedSet(checkpoint) = {101}
  /\ ProcessedSet(checkpoint) = {102}
  /\ report.Mappings[1] = FailedMapping(101, CreateError)
  /\ report.Mappings[2].Status = "success"

(* ------------------------------- C6 ------------------------------------ *)

CallFailed(op) == <<op, 0, FALSE>> \in calls

Called(op) == \E call \in calls : call[1] = op

\* C6: once a connection test or the fetch has failed, the run has ended with
\* an error and without a report, no call for an item was made, nothing was
\* counted or recorded, no checkpoint was written, and no call follows the
\* failed one (no fetch after a failed connection test).
C6_FatalErrorTouchesNothing ==
  (CallFailed("ado.TestConnection") \/ CallFailed("github.TestConnection")
     \/ CallFailed("GetWorkItems")) =>
    /\ pc = "error"
    /\ \A call \in calls : call[1] \notin ItemOps
    /\ saves = <<>>
    /\ report = NewReport
    /\ workItems = <<>>
    /\ (CallFailed("ado.TestConnection") =>
          ~Called("github.TestConnection") /\ ~Called("GetWorkItems"))
    /\ (CallFailed("github.TestConnection") => ~Called("GetWorkItems"))

\* the GitHub connection test of a resumed run has failed
C6_Witness ==
  /\ CallFailed("github.TestConnection")
  /\ config.ResumeFromCheckpoint
  /\ pc = "error"

(* ------------------------------- C7 ------------------------------------ *)

CreationOps == {"CreateIssue", "CreateIssueComment", "UpdateIssueState"}

\* C7 as stated: in a dry run no creation operation is called and the
\* checkpoint is not touched: it is not loaded, not changed and not saved.
C7_DryRunNeverTouchesCheckpoint ==
  config.DryRun =>
    /\ \A call \in calls : call[1] \notin CreationOps
    /\ checkpoint = NewCheckpoint
    /\ saves = <<>>

\* C7 as amended: in a dry run no creation operation is called, the
\* checkpoint file is never written, and the checkpoint in memory is never
\* changed by the dry run itself; when resume is requested Run still reads
\* the checkpoint file before it tests the connections, so that the
\* checkpoint in memory then holds what the file held.
C7_DryRunOnlyLoadsCheckpoint ==
  [][(config.DryRun /\ run' = run) =>
       /\ \A call \in calls' : call[1] \notin CreationOps
       /\ file' = file
       /\ saves' = <<>>
       /\ issues' = issues
       /\ (pc # "load" => checkpoint' = checkpoint)
       /\ (pc = "load" => checkpoint' \in {checkpoint, file.data})]_vars

\* a resumed dry run has returned its report with a failed label validation;
\* its checkpoint is the one it loaded from the file
C7_Witness ==
  /\ config.DryRun
  /\ config.ResumeFromCheckpoint
  /\ pc = "done"
  /\ report.FailedCount > 0
  /\ file.kind = "ok"
  /\ checkpoint = file.data
  /\ ProcessedSet(checkpoint) # {}

(* ------------------------------- C8 ------------------------------------ *)

\* C8: with dry-run enabled no operation that changes the target repository
\* is invoked: no issue creation, comment creation, state update or label
\* creation.
C8_DryRunChangesNothing ==
  config.DryRun =>
    \A call \in calls : call[1] \notin CreationOps \cup {"CreateLabel"}

(* ------------------------------- C9 ------------------------------------ *)

CommentsFailed(cs, id) ==
  \/ <<"GetWorkItemComments", id, FALSE>> \in cs
  \/ <<"CreateIssueComment", id, FALSE>> \in cs

SuccessMapping(id, number) ==
  [AdoWorkItemID |-> id, GitHubIssueID |-> number, Status |-> "success",
   ErrorMessage |-> ""]

\* C9: from the step in which fetching or creating the comments of a created
\* item fails, the item goes on to the close and to the recording of its
\* success without anything being recorded in between; the recording step
\* increments the successful counter, appends the ID to the processed list
\* and a success mapping with an empty error text, and leaves the failed
\* list, the failed counter and the error list as they are.
C9_CommentFailureKeepsSuccess ==
  [][(/\ run' = run
      /\ pc \in {"comments", "comment", "close", "record"}
      /\ CommentsFailed(calls', cur.ID)) =>
       IF pc = "record"
       THEN /\ report'.SuccessfulCount = report.SuccessfulCount + 1
            /\ checkpoint'.ProcessedItems
                 = Append(checkpoint.ProcessedItems, cur.ID)
            /\ report'.Mappings
                 = Append(report.Mappings, SuccessMapping(cur.ID, created))
            /\ issues[created].SourceWIID = cur.ID
            /\ checkpoint'.FailedItems = checkpoint.FailedItems
            /\ report'.FailedCount = report.FailedCount
            /\ report'.Errors = report.Errors
       ELSE /\ pc' \in {"close", "record"}
            /\ k' = k
            /\ report' = report
            /\ checkpoint' = checkpoint]_vars

\* the creation of a comment of item 101 failed and the run has returned
\* with 101 recorded as a success
C9_Witness ==
  /\ pc = "done"
  /\ config.IncludeComments
  /\ workItems = <<101>>
  /\ <<"CreateIssueComment", 101, FALSE>> \in calls
  /\ report.SuccessfulCount = 1
  /\ ProcessedSet(checkpoint) = {101}
  /\ FailedSet(checkpoint) = {}
  /\ report.Errors = <<>>
  /\ report.Mappings[1].Status = "success"
  /\ report.Mappings[1].ErrorMessage = ""

(* ------------------------------- C10 ----------------------------------- *)

\* the number of batches of n items
NumBatches(n, size) == (n + size - 1) \div size

\* C10 as stated: a live run is at the delay after batch b exactly when it
\* has made b saves; it processes the items of batch b + 1 after b saves and
\* returns after as many saves as there are batches; after the save of a
\* batch the file holds every ID recorded as processed or failed so far.
C10_FileHoldsEveryRecordedID ==
  ~config.DryRun =>
    LET size == effectiveBatchSize(config)
    IN /\ (pc \in ItemPcs \cup {"loop"} => Len(saves) = i \div size)
       /\ (pc = "delay" =>
             /\ Len(saves) = i \div size + 1
             /\ k = batchEnd
             /\ file.kind = "ok"
             /\ ProcessedSet(checkpoint) \subseteq ProcessedSet(file.data)
             /\ FailedSet(checkpoint) \subseteq FailedSet(file.data))
       /\ (pc = "done" =>
             Len(saves) = NumBatches(report.TotalWorkItems, size))

\* C10 as amended: the same, but the file holds the checkpoint of the run,
\* and with it every ID recorded as processed or failed so far, only when
\* the save of the batch succeeded; a failed save leaves the old file or a
\* broken one.
C10_OneSavePerBatch ==
  ~config.DryRun =>
    LET size == effectiveBatchSize(config)
    IN /\ (pc \in ItemPcs \cup {"loop"} => Len(saves) = i \div size)
       /\ (pc = "delay" =>
             /\ Len(saves) = i \div size + 1
             /\ k = batchEnd
             /\ (saves[Len(saves)] =>
                   /\ file.kind = "ok"
                   /\ file.data = checkpoint))
       /\ (pc = "done" =>
             Len(saves) = NumBatches(report.TotalWorkItems, size))

\* the second batch of a run has been saved after its only item failed; the
\* file holds the processed item of the first batch and the failed one
C10_Witness ==
  /\ pc = "delay"
  /\ ~config.DryRun
  /\ config.BatchSize = 1
  /\ Len(saves) = 2
  /\ saves[2]
  /\ ProcessedSet(file.data) = {101}
  /\ FailedSet(file.data) = {102}

(* ------------------------------- C11 ----------------------------------- *)

LoadFailed(cs) == <<"loadCheckpoint", 0, FALSE>> \in cs

\* C11: the load of the checkpoint never ends the run, it is always followed
\* by the connection tests; when the load fails, whatever the reason (file
\* missing, unreadable, content that cannot be decoded), the run goes on with
\* the fresh checkpoint of NewEngine; a run without the resume flag never
\* reads the checkpoint file.
C11_FailedLoadGivesFreshCheckpoint ==
  [][run' = run =>
       /\ (pc = "load" =>
             /\ pc' = "testADO"
             /\ (LoadFailed(calls') => checkpoint' = NewCheckpoint))
       /\ (~config.ResumeFromCheckpoint =>
             \A call \in calls' : call[1] # "loadCheckpoint")]_vars

(* ------------------------------- C12 ----------------------------------- *)

SaveFailed(sv) == \E n \in DOMAIN sv : ~sv[n]

\* C12: the save of the checkpoint after a batch and the save of the report
\* at the end leave the report and the checkpoint in memory as they are and
\* are followed by the delay and by the return of runMigration, whether the
\* write succeeded or not; a run in which a save of the checkpoint failed
\* never ends in an error, and it returns only when every batch has been
\* processed and every fetched item is counted.
C12_FailedWriteNeverFailsTheRun ==
  [][run' = run =>
       /\ (pc = "item" /\ k = batchEnd =>
             /\ Len(saves') = Len(saves) + 1
             /\ pc' = "delay"
             /\ report' = report
             /\ checkpoint' = checkpoint)
       /\ (pc = "done" =>
             /\ \E ok \in BOOLEAN : <<"SaveReport", 0, ok>> \in calls'
             /\ pc' = "exit"
             /\ report' = report
             /\ checkpoint' = checkpoint)
       /\ (SaveFailed(saves') =>
             /\ pc' # "error"
             /\ (pc' \in {"done", "exit"} =>
                   /\ i' >= Len(workItems')
                   /\ Len(saves') = NumBatches(Len(workItems'),
                                               effectiveBatchSize(config))
                   /\ report'.SuccessfulCount + report'.FailedCount
                        + report'.SkippedCount = Len(workItems')))]_vars

\* a run of two batches has returned without an error: the save after the
\* first batch failed, the second batch was processed and saved, and the
\* report could not be written
C12_Witness ==
  /\ pc = "exit"
  /\ ~config.DryRun
  /\ saves = <<FALSE, TRUE>>
  /\ <<"SaveReport", 0, FALSE>> \in calls
  /\ report.SuccessfulCount = 2
  /\ ProcessedSet(file.data) = {101, 102}
  /\ reportFile.kind # "ok"

(* ------------------------------- C13 ----------------------------------- *)

\* a step in which the run leaves an item that it counts neither as
\* successful nor as skipped
ItemLeftFailed ==
  /\ run' = run
  /\ pc \in ItemPcs \cup {"dry"}
  /\ k' = k + 1
  /\ report'.SuccessfulCount = report.SuccessfulCount
  /\ report'.SkippedCount = report.SkippedCount

\* the item has a failed call of one of the operations
FailedCallOf(ops, cs, id) == \E op \in ops : <<op, id, FALSE>> \in cs

\* C13 as stated: a step in which an item fails (creation or duplicate
\* search in a live run, label validation in a dry run) does not end the
\* run, increments the failed counter and appends to the error list an
\* entry that names the item; in a live run it also appends a failed
\* mapping for the item.
C13_EveryFailureHasAnErrorEntry ==
  [][ItemLeftFailed =>
       /\ pc' # "error"
       /\ report'.FailedCount = report.FailedCount + 1
       /\ \E msg \in {SearchError, CreateError, "label validation failed"} :
            /\ report'.Errors = Append(report.Errors, <<cur.ID, msg>>)
            /\ (~config.DryRun =>
                  report'.Mappings
                    = Append(report.Mappings, FailedMapping(cur.ID, msg)))]_vars

\* C13 as amended: a step in which an item fails does not end the run and
\* increments the failed counter.  In a live run (creation or duplicate
\* search failed) it appends an error-list entry and a failed mapping that
\* name the item; in a dry run (label validation failed) the counter is all
\* the report gets: no error-list entry and no mapping.
C13_DryRunFailureIsOnlyCounted ==
  [][ItemLeftFailed =>
       /\ pc' # "error"
       /\ report'.FailedCount = report.FailedCount + 1
       /\ IF config.DryRun
          THEN /\ FailedCallOf({"ValidateLabels"}, calls', cur.ID)
               /\ report'.Errors = report.Errors
               /\ report'.Mappings = report.Mappings
          ELSE /\ FailedCallOf({"SearchIssues", "CreateIssue"}, calls', cur.ID)
               /\ \E msg \in {SearchError, CreateError} :
                    /\ report'.Errors
                         = Append(report.Errors, <<cur.ID, msg>>)
                    /\ report'.Mappings
                         = Append(report.Mappings,
                                  FailedMapping(cur.ID, msg))]_vars

\* a dry run over two items has returned: the label validation of 101
\* failed, the report counts one failed item and has no error entry
C13_Witness ==
  /\ pc = "done"
  /\ config.DryRun
  /\ workItems = <<101, 102>>
  /\ <<"ValidateLabels", 101, FALSE>> \in calls
  /\ report.FailedCount = 1
  /\ report.SuccessfulCount = 1
  /\ report.Errors = <<>>
  /\ report.Mappings = <<>>

(* ------------------------------- C14 ----------------------------------- *)

StatusCount(ms, status) ==
  Cardinality({n \in DOMAIN ms : ms[n].Status = status})

\* C14 as stated: when a live run has returned, the mapping list of the
\* report holds one record for every fetched item, in fetch order, and as
\* many records of each status as the counter of that status says.
C14_OneMappingPerFetchedItem ==
  (pc = "done" /\ ~config.DryRun) =>
    /\ Len(report.Mappings) = Len(workItems)
    /\ \A n \in DOMAIN workItems :
         report.Mappings[n].AdoWorkItemID = workItems[n]
    /\ StatusCount(report.Mappings, "success") = report.SuccessfulCount
    /\ StatusCount(report.Mappings, "failed") = report.FailedCount
    /\ StatusCount(report.Mappings, "skipped") = report.SkippedCount

\* the one counter that goes with a status
CounterOf(r, status) ==
  CASE status = "success" -> r.SuccessfulCount
    [] status = "failed" -> r.FailedCount
    [] status = "skipped" -> r.SkippedCount

\* C14 as amended: in a live run, the step that leaves an item whose ID is
\* in the processed list of the checkpoint counts it as skipped and records
\* no mapping; the step that leaves any other item appends exactly one
\* mapping, for that item, and increments the counter of the status of the
\* mapping and no other; no other step changes the mapping list or a
\* counter.  When the run has returned, the report holds as many success
\* and failed mappings as the counters say, and one mapping for every
\* fetched item but those skipped through the checkpoint.
C14_OneMappingPerItemNotInCheckpoint ==
  [][(run' = run /\ ~config.DryRun) =>
       /\ IF pc \in ItemPcs /\ k' = k + 1
          THEN IF cur.ID \in ProcessedSet(checkpoint)
               THEN /\ report'.Mappings = report.Mappings
                    /\ report'.SkippedCount = report.SkippedCount + 1
                    /\ report'.SuccessfulCount = report.SuccessfulCount
                    /\ report'.FailedCount = report.FailedCount
               ELSE \E st \in {"success", "failed", "skipped"} :
                      /\ Len(report'.Mappings) = Len(report.Mappings) + 1
                      /\ SubSeq(report'.Mappings, 1, Len(report.Mappings))
                           = report.Mappings
                      /\ report'.Mappings[Len(report'.Mappings)].AdoWorkItemID
                           = cur.ID
                      /\ report'.Mappings[Len(report'.Mappings)].Status = st
                      /\ \A other \in {"success", "failed", "skipped"} :
                           CounterOf(report', other)
                             = CounterOf(report, other)
                                 + (IF other = st THEN 1 ELSE 0)
          ELSE /\ report'.Mappings = report.Mappings
               /\ \A st \in {"success", "failed", "skipped"} :
                    CounterOf(report', st) = CounterOf(report, st)
       /\ (pc' = "done" =>
             /\ StatusCount(report'.Mappings, "success")
                  = report'.SuccessfulCount
             /\ StatusCount(report'.Mappings, "failed") = report'.FailedCount
             /\ Len(report'.Mappings)
                  = report'.TotalWorkItems
                      - (report'.SkippedCount
                           - StatusCount(report'.Mappings, "skipped")))]_vars

\* a resumed live run over 101 and 102 has returned: 101 was skipped through
\* the loaded checkpoint and has no mapping, 102 was created
C14_Witness ==
  /\ pc = "done"
  /\ ~config.DryRun
  /\ config.ResumeFromCheckpoint
  /\ workItems = <<101, 102>>
  /\ 101 \in ProcessedSet(file.data)
  /\ report.SkippedCount = 1
  /\ report.SuccessfulCount = 1
  /\ Len(report.Mappings) = 1
  /\ report.Mappings[1].AdoWorkItemID = 102
  /\ report.Mappings[1].Status = "success"

(* ------------------------------- C15 ----------------------------------- *)

\* what the checkpoint's mapping list holds in front of the report's
LoadedMappings(cp, r) ==
  SubSeq(cp.Mappings, 1, Len(cp.Mappings) - Len(r.Mappings))

\* C15 as stated: at every point of a live run, resumed or not, the mapping
\* list of the checkpoint is the mapping list of the report.
C15_SameMappingList ==
  ~config.DryRun => checkpoint.Mappings = report.Mappings

\* C15 as amended: at every point of a live run the mapping list of the
\* checkpoint is the list that loadCheckpoint left in it followed by the
\* mapping list of the report, which holds the mappings of this run only;
\* the two are the same list in a run that is not resumed.  After the load
\* nothing changes the front part.
C15_CheckpointMappingsEndWithReportMappings ==
  [][(run' = run /\ ~config.DryRun) =>
       /\ Len(checkpoint'.Mappings) >= Len(report'.Mappings)
       /\ checkpoint'.Mappings
            = LoadedMappings(checkpoint', report') \o report'.Mappings
       /\ (~config.ResumeFromCheckpoint =>
             checkpoint'.Mappings = report'.Mappings)
       /\ (pc = "load" =>
             LoadedMappings(checkpoint', report')
               \in {<<>>, file.data.Mappings})
       /\ (pc # "load" =>
             LoadedMappings(checkpoint', report')
               = LoadedMappings(checkpoint, report))]_vars

\* a resumed live run has loaded the mapping of 101 and recorded the one of
\* 102: the checkpoint holds both, the report only the second
C15_Witness ==
  /\ ~config.DryRun
  /\ config.ResumeFromCheckpoint
  /\ pc = "done"
  /\ Len(checkpoint.Mappings) = 2
  /\ Len(report.Mappings) = 1
  /\ checkpoint.Mappings[1].AdoWorkItemID = 101
  /\ checkpoint.Mappings[2] = report.Mappings[1]
  /\ report.Mappings[1].AdoWorkItemID = 102

(* ------------------------------- C16 ----------------------------------- *)

\* C16: once the context of the run is cancelled, a phase that has not
\* started is not entered: before the fetch has returned no item is fetched
\* and no processing begins, a dry run that has not begun its first item
\* does not begin it, and a live run at the head of its batch loop starts no
\* further batch but returns, so that a batch that was running when the
\* signal came is the last one.
C16_CancelledRunStartsNoFurtherPhase ==
  [][(cancelled /\ run' = run) =>
       /\ (pc \in {"load", "testADO", "testGitHub", "fetch"} =>
             /\ workItems' = <<>>
             /\ pc' \notin {"dry", "loop"})
       /\ (pc = "dry" /\ k = 0 => k' = 0)
       /\ (pc = "loop" => pc' = "done")]_vars

(* ------------------------------- C17 ----------------------------------- *)

\* a Mapper has returned the issue of mapperIn
Mapped == mapperOut # <<>>

\* the spellings of done, closed and removed among the states handed in
TerminalStates == {"done", "Closed", "REMOVED"}

\* C17: the state of the issue is the value of the state table when the
\* state of the work item, as it is spelled, is a key of the table;
\* otherwise it is closed for done, closed and removed in any letter case
\* and open for every other state, the empty and the unknown one included.
C17_StateTableThenBuiltIn ==
  Mapped =>
    LET adoState == mapperIn.workItem.Fields.State
        table == mapperIn.m.config.StateMapping
    IN mapperOut[1].State
         = IF adoState \in DOMAIN table THEN table[adoState]
           ELSE IF adoState \in TerminalStates THEN "closed"
           ELSE "open"

\* REMOVED, which is spelled in upper case and is in no table, is mapped to
\* closed by a Mapper whose table holds other states
C17_Witness ==
  /\ Mapped
  /\ mapperIn.workItem.Fields.State = "REMOVED"
  /\ DOMAIN mapperIn.m.config.StateMapping # {}
  /\ mapperOut[1].State = "closed"

(* ------------------------------- C18 ----------------------------------- *)

\* the labels C18 lists, in its order, before duplicates and empty strings
\* are removed
AccumulatedLabels(m, workItem) ==
  LET f == workItem.Fields
      fm == m.config
      parts == SelectSeq(f.Tags, LAMBDA part : TrimSpace(part) # "")
  IN (IF ToLower(f.WorkItemType) \in DOMAIN fm.TypeMapping
      THEN fm.TypeMapping[ToLower(f.WorkItemType)] ELSE <<>>)
     \o (IF f.Priority \in DOMAIN fm.PriorityMapping
         THEN fm.PriorityMapping[f.Priority] ELSE <<>>)
     \o (IF fm.IncludeSeverityLabel /\ f.Severity # ""
         THEN <<"severity:" \o ToLower(f.Severity)>> ELSE <<>>)
     \o (IF fm.IncludeAreaPathLabel /\ Len(f.AreaPath) >= 2
         THEN <<"area:" \o ToLower(f.AreaPath[Len(f.AreaPath)])>> ELSE <<>>)
     \o [n \in DOMAIN parts |-> ToLower(TrimSpace(parts[n]))]

\* the place of the first occurrence of label l in the list ls
FirstAt(ls, l) ==
  CHOOSE n \in DOMAIN ls : ls[n] = l /\ \A j \in 1..(n - 1) : ls[j] # l

\* C18: the labels of the issue are the labels of the type table, of the
\* priority table, the severity label, the area label and the tags, in this
\* order, without the empty strings and without the later occurrences of a
\* label: no label is empty, none occurs twice, every accumulated label
\* that is not empty occurs, and the labels stand in the order of their
\* first occurrences.
C18_LabelsInOrderWithoutDuplicates ==
  Mapped =>
    LET acc == AccumulatedLabels(mapperIn.m, mapperIn.workItem)
        labels == mapperOut[1].Labels
    IN /\ \A n \in DOMAIN labels : labels[n] # ""
       /\ \A n, j \in DOMAIN labels : labels[n] = labels[j] => n = j
       /\ {labels[n] : n \in DOMAIN labels}
            = {acc[n] : n \in DOMAIN acc} \ {""}
       /\ \A n, j \in DOMAIN labels :
            n < j => FirstAt(acc, labels[n]) < FirstAt(acc, labels[j])

\* a bug of priority 1 with a severity, an area path and tags that repeat a
\* label of the tables: urgent, which the type table, the priority table and
\* the tags give, stays where the type table put it
C18_Witness ==
  /\ Mapped
  /\ mapperIn.m = CustomTables
  /\ mapperIn.workItem.Fields.AreaPath = <<"Proj", "Login">>
  /\ mapperIn.workItem.Fields.Tags = <<"bug", " ", "Urgent">>
  /\ mapperOut[1].Labels
       = <<"bug", "urgent", "priority:critical", "severity:high">>

(* ------------------------------- C19 ----------------------------------- *)

C20_TypeLabelsWhateverTheCaseOfTheKey ==
  Mapped =>
    LET table == mapperIn.m.config.TypeMapping
        labels == mapperOut[1].Labels
    IN \A key \in DOMAIN table :
         ToLower(key) = ToLower(mapperIn.workItem.Fields.WorkItemType) =>
           \A n \in DOMAIN table[key] :
             table[key][n] # "" =>
               \E j \in DOMAIN labels : labels[j] = table[key][n]

(* ------------------------------- C21 ----------------------------------- *)

\* the step makes a call
MakesCall == last'.n = last.n + 1

\* a live run is at an item whose ID is not in the processed list
AtUnprocessedItem ==
  /\ ~config.DryRun
  /\ pc = "item"
  /\ k < batchEnd
  /\ cur.ID \notin ProcessedSet(checkpoint)

SkippedMapping(id, number) ==
  [AdoWorkItemID |-> id, GitHubIssueID |-> number, Status |-> "skipped",
   ErrorMessage |-> "Issue already exists"]

C22_SearchFailureFailsClosed ==
  [][(run' = run) =>
       /\ (AtUnprocessedItem /\ MakesCall /\ ~last'.ok =>
             /\ last'.op = "SearchIssues"
             /\ last'.id = cur.ID
             /\ issues' = issues
             /\ report'.FailedCount = report.FailedCount + 1
             /\ report'.SuccessfulCount = report.SuccessfulCount
             /\ report'.SkippedCount = report.SkippedCount
             /\ checkpoint'.FailedItems
                  = Append(checkpoint.FailedItems, cur.ID)
             /\ checkpoint'.ProcessedItems = checkpoint.ProcessedItems
             /\ report'.Errors
                  = Append(report.Errors, <<cur.ID, SearchError>>)
             /\ report'.Mappings
                  = Append(report.Mappings, FailedMapping(cur.ID, SearchError))
             /\ pc' = "item"
             /\ k' = k + 1
             /\ batchEnd' = batchEnd)
       /\ (last.op = "SearchIssues" /\ ~last.ok =>
             /\ pc \in {"item", "delay", "loop", "done"}
             /\ (MakesCall => last'.op \in {"SearchIssues", "SaveReport"}))
     ]_vars

\* the search for the first item of a batch failed, the second item of the
\* batch was created, and the run has returned its report
C22_Witness ==
  /\ pc = "done"
  /\ ~config.DryRun
  /\ config.BatchSize = 0
  /\ workItems = <<101, 102>>
  /\ CallsFor(101) = {<<"SearchIssues", 101, FALSE>>}
  /\ <<"CreateIssue", 102, TRUE>> \in calls
  /\ report.FailedCount = 1
  /\ report.SuccessfulCount = 1
  /\ FailedSet(checkpoint) = {101}
  /\ report.Errors = <<<<101, SearchError>>>>
  /\ report.Mappings[1] = FailedMapping(101, SearchError)
  /\ SearchIssues(issues, 101) = {}

(* ------------------------------- C23 ----------------------------------- *)

CommentOps == {"GetWorkItemComments", "CreateIssueComment"}

CloseCalled(cs, id) == \E ok \in BOOLEAN : <<"UpdateIssueState", id, ok>> \in cs

\* C23: in a live run a call that fetches or creates comments or updates
\* the state is made for the item the run is at, after the CreateIssue of
\* that item succeeded in this run and on the issue it created; no comment
\* call is made for an item once UpdateIssueState was called for it; when
\* the item is recorded, UpdateIssueState has been called for it exactly if
\* its mapped state is closed, whether or not the comments failed; and the
\* recording step records a success whatever UpdateIssueState returned.
C23_CommentsThenCloseAfterCreate ==
  [][(run' = run /\ ~config.DryRun) =>
       /\ (MakesCall /\ last'.op \in CommentOps \cup {"UpdateIssueState"} =>
             /\ pc \in {"comments", "comment", "close"}
             /\ last'.id = cur.ID
             /\ <<"CreateIssue", cur.ID, TRUE>> \in calls
             /\ created \in DOMAIN issues
             /\ issues[created].SourceWIID = cur.ID
             /\ issues' = issues)
       /\ (MakesCall /\ last'.op \in CommentOps =>
             /\ config.IncludeComments
             /\ ~CloseCalled(calls, cur.ID))
       /\ (MakesCall /\ last'.op = "UpdateIssueState" => pc' = "record")
       /\ (pc = "record" =>
             /\ CloseCalled(calls, cur.ID)
                  = (MapWorkItemToIssue(mapper, cur).State = "closed")
             /\ report'.SuccessfulCount = report.SuccessfulCount + 1
             /\ report'.FailedCount = report.FailedCount
             /\ checkpoint'.ProcessedItems
                  = Append(checkpoint.ProcessedItems, cur.ID)
             /\ checkpoint'.FailedItems = checkpoint.FailedItems
             /\ report'.Mappings
                  = Append(report.Mappings, SuccessMapping(cur.ID, created)))
     ]_vars

\* item 101, whose state Done maps to closed, was created, the creation of
\* its second comment failed, the close was called and failed as well, and
\* the run has returned with 101 recorded as a success; 102, mapped to
\* open, was created without a close
C23_Witness ==
  /\ pc = "done"
  /\ config.IncludeComments
  /\ workItems = <<101, 102>>
  /\ MapWorkItemToIssue(mapper, WorkItem(101)).State = "closed"
  /\ MapWorkItemToIssue(mapper, WorkItem(102)).State = "open"
  /\ {<<"CreateIssueComment", 101, TRUE>>, <<"CreateIssueComment", 101, FALSE>>,
      <<"UpdateIssueState", 101, FALSE>>} \subseteq calls
  /\ <<"CreateIssue", 102, TRUE>> \in calls
  /\ ~CloseCalled(calls, 102)
  /\ report.SuccessfulCount = 2
  /\ report.FailedCount = 0
  /\ ProcessedSet(checkpoint) = {101, 102}

(* ------------------------------- C24 ----------------------------------- *)

\* the batch size C24 describes: the configured one, or a positive default
\* when that is not positive
BatchSizeOf(cfg) == IF cfg.BatchSize > 0 THEN cfg.BatchSize ELSE DefaultBatchSize

\* the batches of a live run: each starts at a multiple of the batch size,
\* right where the one before ended, and ends that many items further or at
\* the end of the list; the run is at item k of the list when it has counted
\* k items, and each item is counted once, in the order of the list
C24_Batches ==
  [][(run' = run /\ ~config.DryRun) =>
       LET size == BatchSizeOf(config)
       IN /\ size > 0
          /\ (pc = "loop" /\ pc' = "item" =>
                /\ i % size = 0
                /\ i < Len(workItems)
                /\ k' = i
                /\ batchEnd' = Min(i + size, Len(workItems)))
          /\ (pc \in ItemPcs =>
                /\ i <= k /\ k <= batchEnd
                /\ (pc # "item" => k < batchEnd)
                /\ k' \in {k, k + 1}
                /\ i' = i /\ batchEnd' = batchEnd /\ workItems' = workItems
                /\ Counted = k
                /\ report'.SuccessfulCount + report'.FailedCount
                     + report'.SkippedCount = k')
          /\ (pc = "delay" =>
                /\ k = batchEnd
                /\ i' = i + size
                /\ (i' < Len(workItems) => batchEnd = i'))
          /\ (pc' = "done" =>
                /\ k' = Len(workItems')
                /\ report'.EndTime
                /\ Len(saves') = NumBatches(Len(workItems'), size))]_vars

\* C24: a live run goes through the fetched list in consecutive batches of
\* the configured size, or of a positive default when that size is not
\* positive, the last batch alone being shorter, handles every item once and
\* in the order of the list, and, when the process is not killed, returns
\* with the end time of the report set whatever the items did.
C24_LiveRunTerminates ==
  /\ C24_Batches
  /\ (~config.DryRun /\ pc = "loop")
       ~> (pc = "done" /\ report.EndTime /\ Counted = Len(workItems))

\* a run with the default batch size has returned after one batch of two
\* items, shorter than the batch size, both of which failed
C24_Witness ==
  /\ pc = "done"
  /\ ~config.DryRun
  /\ config.BatchSize = 0
  /\ Len(workItems) = 2
  /\ Len(saves) = 1
  /\ report.FailedCount = 2
  /\ report.EndTime

(* ------------------------------- C25 ----------------------------------- *)

\* how often x occurs in the list
Occurrences(list, x) == Cardinality({n \in DOMAIN list : list[n] = x})

NoDuplicates(list) == \A id \in WorkItemIDs : Occurrences(list, id) <= 1

\* the checkpoints of a state: the one of the engine and the one in the file
Checkpoints == {checkpoint} \cup (IF file.kind = "ok" THEN {file.data} ELSE {})

\* C25 as stated: no source ID occurs more than once in the processed list
\* or in the failed list of the checkpoint, in memory and in the file.
C25_BothListsAreSets ==
  \A cp \in Checkpoints :
    NoDuplicates(cp.ProcessedItems) /\ NoDuplicates(cp.FailedItems)

\* the failed mappings of the item in a list of mappings
FailedMappingsOf(ms, id) ==
  {n \in DOMAIN ms : ms[n].AdoWorkItemID = id /\ ms[n].Status = "failed"}

\* C25 as amended: no source ID occurs more than once in the processed list
\* of the checkpoint, in memory and in the file, within one run, also when
\* the fetched list repeats an ID, and across resumed runs; the failed list
\* holds an ID once for every recorded failure of that item, which is once
\* for every failed mapping of the item in the checkpoint.
C25_ProcessedListIsASet ==
  \A cp \in Checkpoints :
    /\ NoDuplicates(cp.ProcessedItems)
    /\ \A id \in WorkItemIDs :
         Occurrences(cp.FailedItems, id)
           = Cardinality(FailedMappingsOf(cp.Mappings, id))

\* a resumed run has loaded a checkpoint in which 101 was failed, 101 has
\* failed again, and the file holds the failed list with 101 twice
C25_Witness ==
  /\ config.ResumeFromCheckpoint
  /\ ~config.DryRun
  /\ workItems = <<101, 102>>
  /\ checkpoint.FailedItems = <<101, 101>>
  /\ checkpoint.ProcessedItems = <<102>>
  /\ Len(report.Mappings) = 2
  /\ file = SavedFile(checkpoint)

(* ------------------------------- C26 ----------------------------------- *)

\* C26: every ID in the processed list of the checkpoint, in memory and in
\* the file, is the ID of an item that has an issue in the repository; the
\* processed list of a run changes only when the run loads the file and when
\* it records the item it is at, after the CreateIssue of that item
\* succeeded in this run and with the issue of that call in the repository:
\* no step that records a failure or a duplicate adds to it.
C26_ProcessedOnlyAfterCreate ==
  [][/\ \A cp \in Checkpoints' :
          \A id \in ProcessedSet(cp) : SearchIssues(issues', id) # {}
     /\ (run' = run /\ checkpoint'.ProcessedItems # checkpoint.ProcessedItems =>
           IF pc = "load"
           THEN /\ file.kind = "ok"
                /\ checkpoint'.ProcessedItems = file.data.ProcessedItems
           ELSE /\ pc = "record"
                /\ checkpoint'.ProcessedItems
                     = Append(checkpoint.ProcessedItems, cur.ID)
                /\ last.op \in {"CreateIssue", "GetWorkItemComments",
                                "CreateIssueComment", "UpdateIssueState"}
                /\ last.id = cur.ID
                /\ <<"CreateIssue", cur.ID, TRUE>> \in calls
                /\ issues[created].SourceWIID = cur.ID
                /\ report'.Mappings[Len(report'.Mappings)].Status = "success")
    ]_vars

\* the first batch of a run was saved with 101 created and processed; in
\* the second batch the creation of 102 has failed: 102 is in the failed
\* list, not in the processed list of the checkpoint and of the file
C26_Witness ==
  /\ ~config.DryRun
  /\ config.BatchSize = 1
  /\ workItems = <<101, 102>>
  /\ pc = "delay"
  /\ i = 1
  /\ <<"CreateIssue", 101, TRUE>> \in calls
  /\ <<"CreateIssue", 102, FALSE>> \in calls
  /\ file = SavedFile(checkpoint)
  /\ ProcessedSet(file.data) = {101}
  /\ FailedSet(file.data) = {102}
  /\ SearchIssues(issues, 101) # {}
  /\ SearchIssues(issues, 102) = {}

(* ------------------------------- C27 ----------------------------------- *)

\* C27 as stated: no source ID is in both the processed list and the failed
\* list of the checkpoint, in memory and in the file.
C27_NeverProcessedAndFailed ==
  \A cp \in Checkpoints : ProcessedSet(cp) \cap FailedSet(cp) = {}

\* C27 as amended: a run appends to the failed list only the ID of the item
\* it is at, and only when that ID is not in the processed list; nothing is
\* ever removed from the failed list: the step that records a success
\* leaves it as it is and a resumed run takes it over from the file.  An ID
\* is therefore in both lists exactly when the item failed before it was
\* migrated, each of its failed mappings standing before its success mapping
\* in the mapping list of the checkpoint.
C27_FailedBeforeProcessed ==
  [][/\ (run' = run /\ pc = "load" /\ last'.ok =>
           checkpoint'.FailedItems = file.data.FailedItems)
     /\ (run' = run /\ pc # "load" =>
           /\ \/ checkpoint'.FailedItems = checkpoint.FailedItems
              \/ /\ checkpoint'.FailedItems
                      = Append(checkpoint.FailedItems, cur.ID)
                 /\ cur.ID \notin ProcessedSet(checkpoint)
                 /\ checkpoint'.ProcessedItems = checkpoint.ProcessedItems
           /\ (checkpoint'.ProcessedItems # checkpoint.ProcessedItems =>
                 checkpoint'.FailedItems = checkpoint.FailedItems))
     /\ \A cp \in Checkpoints' :
          \A id \in WorkItemIDs :
            (id \in ProcessedSet(cp) \cap FailedSet(cp)) =
              (\E n, m \in DOMAIN cp.Mappings :
                 /\ n < m
                 /\ cp.Mappings[n].AdoWorkItemID = id
                 /\ cp.Mappings[n].Status = "failed"
                 /\ cp.Mappings[m].AdoWorkItemID = id
                 /\ cp.Mappings[m].Status = "success")
     /\ \A cp \in Checkpoints' :
          \A n, m \in DOMAIN cp.Mappings :
            (/\ cp.Mappings[n].AdoWorkItemID = cp.Mappings[m].AdoWorkItemID
             /\ cp.Mappings[n].Status = "success"
             /\ cp.Mappings[m].Status = "failed") => m < n
    ]_vars

\* a resumed run has loaded a checkpoint in which 101 was failed and has
\* migrated 101: the checkpoint it saved holds 101 in both lists
C27_Witness ==
  /\ config.ResumeFromCheckpoint
  /\ ~config.DryRun
  /\ pc = "done"
  /\ workItems = <<101>>
  /\ report.SuccessfulCount = 1
  /\ report.FailedCount = 0
  /\ checkpoint.FailedItems = <<101>>
  /\ checkpoint.ProcessedItems = <<101>>
  /\ file = SavedFile(checkpoint)

(* ------------------------------- C28 ----------------------------------- *)

\* a live run is at an item, or at the CreateIssue of an item, whose ID is
\* in the failed list and not in the processed list of the checkpoint
AtFailedItem ==
  /\ ~config.DryRun
  /\ pc \in {"item", "create"}
  /\ pc = "item" => k < batchEnd
  /\ cur.ID \in FailedSet(checkpoint)
  /\ cur.ID \notin ProcessedSet(checkpoint)

\* C28: an item whose ID is in the failed list and not in the processed
\* list is handled as an item that is in neither: the run searches for its
\* issue, skips it with a mapping when the search returns an issue, records
\* a failure when the search fails, and otherwise calls CreateIssue for it;
\* the skipped counter counts it only when the search returned an issue.
C28_FailedListIsNotConsulted ==
  [][(run' = run /\ AtFailedItem) =>
       /\ MakesCall
       /\ last'.id = cur.ID
       /\ IF pc = "item"
          THEN /\ last'.op = "SearchIssues"
               /\ (pc' = "create")
                    = (last'.ok /\ SearchIssues(issues, cur.ID) = {})
               /\ (report'.SkippedCount # report.SkippedCount)
                    = (last'.ok /\ SearchIssues(issues, cur.ID) # {})
               /\ (report'.FailedCount # report.FailedCount) = ~last'.ok
          ELSE /\ last'.op = "CreateIssue"
               /\ (last'.ok => /\ SearchIssues(issues', cur.ID) # {}
                               /\ pc' \in {"comments", "close", "record"})
    ]_vars

\* a resumed run has loaded a checkpoint with 101 in the failed list, has
\* searched for 101 and created it, and has recorded it as a success
C28_Witness ==
  /\ config.ResumeFromCheckpoint
  /\ ~config.DryRun
  /\ pc = "item"
  /\ workItems = <<101>>
  /\ k = 1
  /\ Len(report.Mappings) = 1
  /\ checkpoint.FailedItems = <<101>>
  /\ {<<"loadCheckpoint", 0, TRUE>>, <<"SearchIssues", 101, TRUE>>,
      <<"CreateIssue", 101, TRUE>>} \subseteq calls
  /\ report.SuccessfulCount = 1
  /\ report.SkippedCount = 0
  /\ ProcessedSet(checkpoint) = {101}

(* ------------------------------- C29 ----------------------------------- *)

PostCreateOps == CommentOps \cup {"UpdateIssueState"}

\* C29: in every run, a comment or state-update call is made only for the
\* item the run is at and on the issue that the CreateIssue of this item
\* created in this run, the only issue of the item; GetWorkItemComments and
\* UpdateIssueState are called once for it and CreateIssueComment at most
\* once for each of its comments, none after the first call that failed; and
\* an item whose ID is in the processed list or has an issue in the
\* repository, as every item has for which such a call was ever made, is
\* left without CreateIssue and without any comment or state-update call.
C29_SideEffectsAtMostOnce ==
  [][(run' = run /\ ~config.DryRun) =>
       /\ (MakesCall /\ last'.op \in PostCreateOps =>
             /\ last'.id = cur.ID
             /\ <<"CreateIssue", cur.ID, TRUE>> \in calls
             /\ SearchIssues(issues, cur.ID) = {created}
             /\ issues' = issues)
       /\ (pc = "comments" =>
             /\ last.op = "CreateIssue"
             /\ last'.op = "GetWorkItemComments"
             /\ pc' \in {"comment", "close", "record"}
             /\ (~last'.ok => pc' # "comment"))
       /\ (pc = "comment" =>
             /\ c < cur.NumComments
             /\ last'.op = "CreateIssueComment"
             /\ pc' \in {"comment", "close", "record"}
             /\ (last'.ok => c' = c + 1)
             /\ (pc' = "comment" => last'.ok /\ c' < cur.NumComments))
       /\ (pc = "close" =>
             /\ ~CloseCalled(calls, cur.ID)
             /\ last'.op = "UpdateIssueState"
             /\ pc' = "record")
       /\ (pc = "record" => ~MakesCall /\ pc' = "item" /\ k' = k + 1)
       /\ (/\ pc = "item"
           /\ k < batchEnd
           /\ \/ cur.ID \in ProcessedSet(checkpoint)
              \/ SearchIssues(issues, cur.ID) # {}
           => /\ pc' = "item"
              /\ k' = k + 1
              /\ issues' = issues
              /\ (MakesCall => last'.op = "SearchIssues"))
    ]_vars

\* a run without a checkpoint finds the issue of 101 that an earlier run
\* created before it died, skips 101 and returns: it has made no comment
\* and no state-update call for 101, although comments are to be migrated
\* and 101 maps to closed
C29_Witness ==
  /\ run = 2
  /\ pc = "done"
  /\ ~config.DryRun
  /\ config.IncludeComments
  /\ ~config.ResumeFromCheckpoint
  /\ workItems = <<101>>
  /\ MapWorkItemToIssue(mapper, WorkItem(101)).State = "closed"
  /\ WorkItem(101).NumComments > 0
  /\ CallsFor(101) = {<<"SearchIssues", 101, TRUE>>}
  /\ report.SkippedCount = 1
  /\ Cardinality(SearchIssues(issues, 101)) = 1

(* ------------------------------- C30 ----------------------------------- *)

\* C30: a dry run makes no duplicate search and counts no item as skipped;
\* for every fetched item, whether or not its ID is in the processed list
\* of the loaded checkpoint or has an issue in the repository, it validates
\* the labels of the item and counts the item as successful when the
\* validation succeeded and as failed when it did not; it returns when it
\* has counted every fetched item.
C30_DryRunCountsValidationsOnly ==
  [][(run' = run /\ config.DryRun) =>
       /\ report'.SkippedCount = 0
       /\ \A call \in calls' : call[1] # "SearchIssues"
       /\ (pc = "dry" /\ k < Len(workItems) =>
             /\ MakesCall
             /\ last'.op = "ValidateLabels"
             /\ last'.id = cur.ID
             /\ k' = k + 1
             /\ pc' = "dry"
             /\ report'.SuccessfulCount
                  = report.SuccessfulCount + (IF last'.ok THEN 1 ELSE 0)
             /\ report'.FailedCount
                  = report.FailedCount + (IF last'.ok THEN 0 ELSE 1)
             /\ report'.Mappings = <<>>
             /\ checkpoint' = checkpoint
             /\ issues' = issues)
       /\ (pc = "dry" =>
             report.SuccessfulCount + report.FailedCount = k)
       /\ (pc' = "done" => k' = Len(workItems'))
    ]_vars

\* a resumed dry run has loaded a checkpoint in which 101 is processed, the
\* repository holds the issue of 101, and the run has returned with the first
\* 101 of the list counted as successful, the second one, whose validation
\* failed, as failed, and nothing skipped
C30_Witness ==
  /\ config.DryRun
  /\ config.ResumeFromCheckpoint
  /\ pc = "done"
  /\ workItems = <<101, 101>>
  /\ ProcessedSet(checkpoint) = {101}
  /\ SearchIssues(issues, 101) # {}
  /\ <<"ValidateLabels", 101, TRUE>> \in calls
  /\ last.op = "ValidateLabels" /\ last.id = 101 /\ ~last.ok
  /\ report.SuccessfulCount = 1
  /\ report.FailedCount = 1
  /\ report.SkippedCount = 0

====
